---------------------------- MODULE Spec2Model ----------------------------
(***************************************************************************)
(* A model of the ore runtime's Object property store                      *)
(* (src/src/Runtime/Object.cpp) and of the orepl host (src/REPL/main.cpp). *)
(*                                                                         *)
(* Three specifications share the variables:                               *)
(*   Spec      - put / get / contains on one Object                        *)
(*   TraceSpec - an object graph built with put, then Object::visit_graph  *)
(*   HostSpec  - main(): option parsing, REPL loop, script and evaluate    *)
(***************************************************************************)
EXTENDS Integers, Sequences, FiniteSets, TLC

(***************************************************************************)
(* Bounds of the model.                                                    *)
(***************************************************************************)
\* number of put calls in one behaviour
MaxPuts == 3
\* number of heap cells of the object graph
NumCells == 3
\* depth of the native call stack: deeper recursion is a stack overflow
MaxDepth == 5
\* number of script arguments on the command line
MaxArgs == 2
\* number of lines readline returns in one behaviour
MaxReads == 3

Cells == 1..NumCells

(***************************************************************************)
(* Values and property keys.                                               *)
(***************************************************************************)
\* Value: a tagged union; n is the number, or the identity of the cell
Nil == [tag |-> "nil", n |-> 0]
Number(i) == [tag |-> "number", n |-> i]
CellRef(c) == [tag |-> "cell", n |-> c]

\* Value::is_cell / Value::as_cell
IsCell(value) == value.tag = "cell"
AsCell(value) == value.n

\* PropertyKey: the string form, and one representative of the other forms
StringKey(s) == [form |-> "string", name |-> s]
NumberKey == [form |-> "number", name |-> "0"]
KeyIsString(key) == key.form = "string"
KeyString(key) == key.name

\* key strings: "a" and "A" differ only in letter case
KeyNames == {"a", "A", "b"}
PropertyKeys == {StringKey(s) : s \in KeyNames} \cup {NumberKey}

\* the object the store operations are applied to
TheObject == 1
StoreValues == {Nil, Number(1), Number(2), CellRef(2)}

VARIABLES
  m_properties,   \* Object::m_properties of every cell: key string -> Value
  put_log,        \* history: the put calls made so far, oldest first
  last_call,      \* the call that produced this state, with its outcome
  aborted,        \* an assert failed: the process is gone
  n_puts,         \* TraceSpec: the puts made while the graph was built
  trace_pc,       \* TraceSpec: "build", "visit", "done" or "overflow"
  call_stack,     \* TraceSpec: the active calls of visit_graph, innermost last
  reported,       \* TraceSpec: the cells reported to the visitor, in order
  pc,             \* HostSpec: the place main() has reached
  options,        \* HostSpec: what cxxopts parsed from the command line
  heap_toggles,   \* HostSpec: the heap's debug-heap and gc-on-every-allocation
  live,           \* HostSpec: the addresses of the cells the heap holds
  cell_data,      \* HostSpec: what is in memory at each address
  next_addr,      \* HostSpec: the lowest address never handed out
  reclaimed,      \* HostSpec: the addresses a collection has swept
  args_array,     \* HostSpec: main's local args_array (0: not yet set)
  n_pushed,       \* HostSpec: the arguments the for loop has gone through
  ub,             \* HostSpec: a reclaimed cell has been dereferenced
  block_result,   \* HostSpec: the interpreter's last-block-result slot
  run_result,     \* HostSpec: what the last call of run returned
  n_units,        \* HostSpec: the calls of parse_and_run so far
  displayed,      \* HostSpec: what the REPL printed as results, in order
  return_value,   \* parse_and_run: the Exception cell run returned (0: none)
  resume,         \* HostSpec: where main goes on after parse_and_run
  logged,         \* HostSpec: the calls of log_exception, in order
  n_exceptions,   \* HostSpec: the runs that returned an exception so far
  exit_code,      \* HostSpec: "none" while main runs, then its return value
  s_fail_repl,    \* main.cpp:10
  s_line_number,  \* main.cpp:13
  s_repl_line_level, \* main.cpp:14
  piece,          \* read_next_piece: the characters read so far
  open_parens,    \* read_next_piece: size_t counters, kept as the signed
  open_brackets,  \*   residue modulo 2^64 (-1 stands for 2^64 - 1)
  open_curlies,
  n_reads,        \* HostSpec: the lines readline has returned
  n_history_writes \* HostSpec: the calls of write_history

storeVars == <<m_properties, put_log, last_call, aborted>>
traceVars == <<n_puts, trace_pc, call_stack, reported>>
heapVars == <<heap_toggles, live, cell_data, next_addr, reclaimed, ub>>
scriptVars == <<args_array, n_pushed>>
logVars == <<return_value, resume, logged, n_exceptions>>
evalVars == <<block_result, run_result, n_units, displayed, logVars>>
readVars == <<s_fail_repl, s_line_number, s_repl_line_level, piece,
              open_parens, open_brackets, open_curlies, n_reads, n_history_writes>>
hostVars == <<pc, options, exit_code, heapVars, scriptVars, evalVars, readVars>>
vars == <<m_properties, put_log, last_call, aborted,
          n_puts, trace_pc, call_stack, reported,
          pc, options, heap_toggles, live, cell_data, next_addr, reclaimed,
          args_array, n_pushed, ub, block_result, run_result, n_units, displayed,
          return_value, resume, logged, n_exceptions,
          exit_code, s_fail_repl, s_line_number, s_repl_line_level, piece,
          open_parens, open_brackets, open_curlies, n_reads, n_history_writes>>

EmptyMap == [k \in {} |-> Nil]
NoCall == [op |-> "none", obj |-> 0, key |-> NumberKey, outcome |-> "none", value |-> Nil]

(***************************************************************************)
(* Object.cpp: the three property operations, as functions of the map.     *)
(***************************************************************************)
\* a put written with insert(): an existing key keeps its old value
ObjectPutInsertOnly(map, key, value) ==
  [s \in DOMAIN map \cup {KeyString(key)} |->
     IF s \in DOMAIN map THEN map[s] ELSE value]

\* a put that folds the letter case of the key
Lower(s) == IF s = "A" THEN "a" ELSE s
ObjectPutCaseFolded(map, key, value) ==
  [s \in DOMAIN map \cup {Lower(KeyString(key))} |->
     IF s = Lower(KeyString(key)) THEN value ELSE map[s]]

\* m_properties[key.string()] = value
ObjectPut(map, key, value) ==
  [s \in DOMAIN map \cup {KeyString(key)} |->
     IF s = KeyString(key) THEN value ELSE map[s]]

\* a get written with operator[]: an absent key is inserted with a default Value
ObjectGetSubscript(map, key) ==
  IF KeyString(key) \in DOMAIN map
    THEN [outcome |-> "value", value |-> map[KeyString(key)], map |-> map]
    ELSE [outcome |-> "value", value |-> Nil,
          map |-> [s \in DOMAIN map \cup {KeyString(key)} |->
                     IF s = KeyString(key) THEN Nil ELSE map[s]]]

\* m_properties.at(key.string()): the stored value, or std::out_of_range
ObjectGet(map, key) ==
  IF KeyString(key) \in DOMAIN map
    THEN [outcome |-> "value", value |-> map[KeyString(key)], map |-> map]
    ELSE [outcome |-> "out_of_range", value |-> Nil, map |-> map]

\* a contains that takes a property holding nil for a missing one
ObjectContainsNonNil(map, key) ==
  [outcome |-> IF KeyString(key) \in DOMAIN map /\ map[KeyString(key)] /= Nil
                 THEN "true" ELSE "false",
   value |-> Nil, map |-> map]

\* a contains written with at(): an absent key throws
ObjectContainsAt(map, key) ==
  [outcome |-> IF KeyString(key) \in DOMAIN map THEN "true" ELSE "out_of_range",
   value |-> Nil, map |-> map]

\* a contains written with operator[]: an absent key is inserted
ObjectContainsSubscript(map, key) ==
  [outcome |-> IF KeyString(key) \in DOMAIN map THEN "true" ELSE "false",
   value |-> Nil,
   map |-> [s \in DOMAIN map \cup {KeyString(key)} |->
              IF s \in DOMAIN map THEN map[s] ELSE Nil]]

\* m_properties.count(key.string())
ObjectContains(map, key) ==
  [outcome |-> IF KeyString(key) \in DOMAIN map THEN "true" ELSE "false",
   value |-> Nil, map |-> map]

\* assert(key.is_string()) at the head of get, put and contains
Abort(op, obj, key) ==
  /\ ~KeyIsString(key)
  /\ aborted' = TRUE
  /\ last_call' = [op |-> op, obj |-> obj, key |-> key, outcome |-> "abort", value |-> Nil]
  /\ UNCHANGED <<m_properties, put_log, traceVars, hostVars>>

Put(obj, key, value) ==
  /\ ~aborted
  /\ Len(put_log) < MaxPuts
  /\ \/ Abort("put", obj, key)
     \/ /\ KeyIsString(key)
        /\ m_properties' = [m_properties EXCEPT ![obj] = ObjectPut(@, key, value)]
        /\ put_log' = Append(put_log, [obj |-> obj, key |-> KeyString(key), value |-> value])
        /\ last_call' = [op |-> "put", obj |-> obj, key |-> key, outcome |-> "done", value |-> value]
        /\ UNCHANGED <<aborted, traceVars, hostVars>>

Get(obj, key) ==
  /\ ~aborted
  /\ \/ Abort("get", obj, key)
     \/ /\ KeyIsString(key)
        /\ LET r == ObjectGet(m_properties[obj], key) IN
             /\ m_properties' = [m_properties EXCEPT ![obj] = r.map]
             /\ last_call' = [op |-> "get", obj |-> obj, key |-> key,
                              outcome |-> r.outcome, value |-> r.value]
        /\ UNCHANGED <<put_log, aborted, traceVars, hostVars>>

Contains(obj, key) ==
  /\ ~aborted
  /\ \/ Abort("contains", obj, key)
     \/ /\ KeyIsString(key)
        /\ LET r == ObjectContains(m_properties[obj], key) IN
             /\ m_properties' = [m_properties EXCEPT ![obj] = r.map]
             /\ last_call' = [op |-> "contains", obj |-> obj, key |-> key,
                              outcome |-> r.outcome, value |-> r.value]
        /\ UNCHANGED <<put_log, aborted, traceVars, hostVars>>

StoreInit ==
  /\ m_properties = [c \in Cells |-> EmptyMap]
  /\ put_log = <<>>
  /\ last_call = NoCall
  /\ aborted = FALSE

\* the state of the trace while no trace is modelled
TraceIdle ==
  /\ n_puts = 0
  /\ trace_pc = "idle"
  /\ call_stack = <<>>
  /\ reported = <<>>

\* the state of the host while main() is not modelled
NoOptions == [help |-> FALSE, script |-> FALSE, evaluate |-> FALSE, gc |-> FALSE,
              debug |-> FALSE, passed_args |-> <<>>, file_exists |-> FALSE]
HostIdle ==
  /\ pc = "idle"
  /\ options = NoOptions
  /\ exit_code = "none"
  /\ heap_toggles = [debug_heap |-> "unset", gc_on_every_allocation |-> "unset"]
  /\ live = {}
  /\ cell_data = <<>>
  /\ next_addr = 1
  /\ reclaimed = {}
  /\ ub = FALSE
  /\ args_array = 0
  /\ n_pushed = 0
  /\ block_result = Nil
  /\ run_result = "none"
  /\ n_units = 0
  /\ displayed = <<>>
  /\ return_value = 0
  /\ resume = "none"
  /\ logged = <<>>
  /\ n_exceptions = 0
  /\ s_fail_repl = FALSE
  /\ s_line_number = 1
  /\ s_repl_line_level = 0
  /\ piece = <<>>
  /\ open_parens = 0
  /\ open_brackets = 0
  /\ open_curlies = 0
  /\ n_reads = 0
  /\ n_history_writes = 0

Init == StoreInit /\ TraceIdle /\ HostIdle

Next ==
  \/ \E key \in PropertyKeys, value \in StoreValues : Put(TheObject, key, value)
  \/ \E key \in PropertyKeys : Get(TheObject, key)
  \/ \E key \in PropertyKeys : Contains(TheObject, key)

Spec == Init /\ [][Next]_vars

(***************************************************************************)
(* TraceSpec: an object graph is built with put, then the collector's mark *)
(* phase calls visit_graph on the root.  Object::visit_graph is modelled   *)
(* call by call: a frame holds the cell, the place in the body and the     *)
(* properties the for loop has still to reach.                             *)
(***************************************************************************)
\* the root the trace starts from (the global object)
Root == 1
GraphKeys == {"a", "b"}
GraphValues == {Nil} \cup {CellRef(c) : c \in Cells}

\* properties(): the entries the for loop of visit_graph goes through
Properties(cell) == DOMAIN m_properties[cell]

\* a call that runs only the base-class body on the callee: no recursion
BaseOnlyFrame(cell) == [cell |-> cell, at |-> "self", todo |-> {}]

\* a body that goes straight to the loop over the properties
LoopOnlyFrame(cell) == [cell |-> cell, at |-> "loop", todo |-> Properties(cell)]

\* the frame of a call cell->visit_graph(visitor), at the head of the body
VisitFrame(cell) == [cell |-> cell, at |-> "self", todo |-> Properties(cell)]

\* Cell::visit_graph(visitor): the base-class hook reports the cell itself
CellVisitGraph(cell) == Append(reported, cell)

\* building the graph: put(key, value) on any cell
BuildPut(obj, s, value) ==
  /\ trace_pc = "build"
  /\ n_puts < MaxPuts
  /\ m_properties' = [m_properties EXCEPT ![obj] = ObjectPut(@, StringKey(s), value)]
  /\ n_puts' = n_puts + 1
  /\ UNCHANGED <<put_log, last_call, aborted, trace_pc, call_stack, reported, hostVars>>

\* the collector calls Root->visit_graph(visitor)
StartVisit ==
  /\ trace_pc = "build"
  /\ trace_pc' = "visit"
  /\ call_stack' = <<VisitFrame(Root)>>
  /\ UNCHANGED <<storeVars, n_puts, reported, hostVars>>

Top == call_stack[Len(call_stack)]
SetTop(frame) == [call_stack EXCEPT ![Len(call_stack)] = frame]

\* line 6: Cell::visit_graph(visitor)
VisitSelf ==
  /\ trace_pc = "visit"
  /\ Top.at = "self"
  /\ reported' = CellVisitGraph(Top.cell)
  /\ call_stack' = SetTop([Top EXCEPT !.at = "loop"])
  /\ UNCHANGED <<storeVars, n_puts, trace_pc, hostVars>>

\* lines 8-10: one turn of the for loop; the order of the entries is the
\* container's, which any order stands for
VisitProperty ==
  /\ trace_pc = "visit"
  /\ Top.at = "loop"
  /\ \E s \in Top.todo :
       LET value == m_properties[Top.cell][s]
           rest == SetTop([Top EXCEPT !.todo = @ \ {s}])
       IN
         \/ /\ ~IsCell(value)
            /\ call_stack' = rest
            /\ UNCHANGED trace_pc
         \/ /\ IsCell(value)
            /\ Len(call_stack) < MaxDepth
            /\ call_stack' = Append(rest, VisitFrame(AsCell(value)))
            /\ UNCHANGED trace_pc
         \/ /\ IsCell(value)
            /\ Len(call_stack) >= MaxDepth
            /\ trace_pc' = "overflow"
            /\ UNCHANGED call_stack
  /\ UNCHANGED <<storeVars, n_puts, reported, hostVars>>

\* line 11: the loop is over, the call returns
VisitReturn ==
  /\ trace_pc = "visit"
  /\ Top.at = "loop"
  /\ Top.todo = {}
  /\ call_stack' = SubSeq(call_stack, 1, Len(call_stack) - 1)
  /\ trace_pc' = IF Len(call_stack) = 1 THEN "done" ELSE "visit"
  /\ UNCHANGED <<storeVars, n_puts, reported, hostVars>>

TraceInit ==
  /\ StoreInit
  /\ HostIdle
  /\ n_puts = 0
  /\ trace_pc = "build"
  /\ call_stack = <<>>
  /\ reported = <<>>

TraceNext ==
  \/ \E obj \in Cells, s \in GraphKeys, value \in GraphValues : BuildPut(obj, s, value)
  \/ StartVisit
  \/ VisitSelf
  \/ VisitProperty
  \/ VisitReturn

TraceSpec == TraceInit /\ [][TraceNext]_vars

(***************************************************************************)
(* Claims about the trace, checked under TraceSpec.                        *)
(***************************************************************************)
\* the cells one property away from the cells of set
Successors(set) ==
  {AsCell(m_properties[c][s]) : <<c, s>> \in
     {p \in set \X GraphKeys : p[2] \in DOMAIN m_properties[p[1]]
                               /\ IsCell(m_properties[p[1]][p[2]])}}

RECURSIVE Closure(_)
Closure(set) ==
  IF Successors(set) \subseteq set THEN set ELSE Closure(set \cup Successors(set))

\* every cell reachable from cell through a chain of cell-valued properties
Reachable(cell) == Closure({cell})
Marked == {reported[i] : i \in 1..Len(reported)}

\* C1: when visit_graph called on the root has returned, every cell
\* reachable from the root through cell-valued properties has been reported
\* to the visitor, so none of them is left unmarked for the sweep.
C1_ReachableCellsReported ==
  trace_pc = "done" => Reachable(Root) \subseteq Marked

\* the trace of a graph in which every cell is reachable, one of them only
\* through another cell, has returned
C1_Witness ==
  /\ trace_pc = "done"
  /\ Reachable(Root) = Cells
  /\ \E c \in Cells : \A s \in DOMAIN m_properties[Root] :
       m_properties[Root][s] /= CellRef(c)

\* C2: the traversal terminates on every finite graph, cyclic ones too: no
\* cell is entered again while its own visit_graph is still running, and the
\* recursion never runs out of stack.
C2_TraversalTerminates ==
  /\ trace_pc /= "overflow"
  /\ \A i, j \in 1..Len(call_stack) :
       i /= j => call_stack[i].cell /= call_stack[j].cell

(***************************************************************************)
(* HostSpec: main() of the orepl host (src/REPL/main.cpp).                 *)
(*                                                                         *)
(* The heap's allocate and collect follow sections 3 and 4.2 of the        *)
(* specification: the roots are the global object and the                  *)
(* last-block-result slot, a collection sweeps every cell the roots do not *)
(* reach, and with gc-on-every-allocation set every allocate runs one; the *)
(* cell being allocated is not swept by the collection of its own          *)
(* allocate.                                                               *)
(***************************************************************************)
ScriptPath == "s"
ArgStrings == {"x", "y"}
ArgSeqs == UNION {[1..n -> ArgStrings] : n \in 0..MaxArgs}

\* the command lines: every combination of the flags main reads
OptionSpace ==
  {o \in [help : BOOLEAN, script : BOOLEAN, evaluate : BOOLEAN, gc : BOOLEAN,
          debug : BOOLEAN, passed_args : ArgSeqs, file_exists : BOOLEAN] :
     ~o.script => (o.passed_args = <<>> /\ ~o.file_exists)}

\* line 174
repl_mode == ~options.script /\ ~options.evaluate
\* lines 226-231: the script path, then the passed arguments
args == <<ScriptPath>> \o options.passed_args

Flag(b) == IF b THEN "on" ELSE "off"

\* the characters of an input line; the lexer makes one token of each
\* bracket, one of "x", and none of a blank
Chars == {"(", ")", "[", "]", "{", "}", "x", " "}
InputLines ==
  {<<>>, <<" ">>, <<"x">>, <<"(">>, <<")">>, <<"[">>, <<"{">>, <<"}">>,
   <<")", "[">>, <<"(", "x", ")">>}

\* lines 25-32: which prompt get_prompt builds
get_prompt == IF s_repl_line_level = 0 THEN "numbered" ELSE "continuation"

\* a test that takes the empty string for text
is_whitespace_nonempty(str) == str /= <<>> /\ \A i \in 1..Len(str) : str[i] = " "

\* is_whitespace: std::all_of over the characters with std::isspace
is_whitespace(str) == \A i \in 1..Len(str) : str[i] = " "

\* how many times character ch stands in line
RECURSIVE Count(_, _)
Count(line, ch) ==
  IF line = <<>> THEN 0
  ELSE (IF Head(line) = ch THEN 1 ELSE 0) + Count(Tail(line), ch)

\* lines 113-145: what the token loop adds to a counter for one line
Delta(line, open, close) == Count(line, open) - Count(line, close)
\* a token loop whose CurlyClose case leaves s_repl_line_level alone
LevelDeltaCurlyCloseMissed(line) ==
  Delta(line, "(", ")") + Delta(line, "[", "]") + Count(line, "{")
LevelDelta(line) ==
  Delta(line, "(", ")") + Delta(line, "[", "]") + Delta(line, "{", "}")

\* line 147: open_parens + open_brackets + open_curlies > 0 in size_t
\* arithmetic: the sum of the residues is not 0 modulo 2^64
StillOpen(parens, brackets, curlies) == parens + brackets + curlies /= 0

\* the cells the collector starts from
HeapRoots ==
  {AsCell(m_properties[Root][s]) :
     s \in {t \in DOMAIN m_properties[Root] : IsCell(m_properties[Root][t])}}
    \cup (IF IsCell(block_result) THEN {AsCell(block_result)} ELSE {})

\* the cells an array holds in its elements
HeapSuccessors(set) ==
  UNION {{cell_data[a].elems[i] : i \in 1..Len(cell_data[a].elems)} :
           a \in {b \in set : b \in DOMAIN cell_data}}

RECURSIVE HeapClosure(_)
HeapClosure(set) ==
  IF HeapSuccessors(set) \subseteq set THEN set
  ELSE HeapClosure(set \cup HeapSuccessors(set))

\* collect(): the cells that stay; the others are swept
Survivors ==
  IF heap_toggles.gc_on_every_allocation = "on"
    THEN live \cap HeapClosure(HeapRoots)
    ELSE live

\* memory after data has been placed at address a
Placed(data, a) ==
  IF a = next_addr THEN Append(cell_data, data) ELSE [cell_data EXCEPT ![a] = data]

\* heap().allocate<T>(...): with gc-on-every-allocation a collection runs,
\* then the cell is placed at a fresh address or at one that was swept
Allocate(a) ==
  LET swept == live \ Survivors
      free == (reclaimed \cup swept) \ Survivors
  IN
    /\ a \in {next_addr} \cup free
    /\ live' = Survivors \cup {a}
    /\ reclaimed' = reclaimed \cup swept
    /\ next_addr' = IF a = next_addr THEN next_addr + 1 ELSE next_addr

ArrayCell == [kind |-> "array", elems |-> <<>>, str |-> ""]
StringCell(str) == [kind |-> "string", elems |-> <<>>, str |-> str]

\* lines 172-185: the options are parsed; --help prints and returns 0
MainStart ==
  /\ pc = "start"
  /\ IF options.help
       THEN pc' = "exit" /\ exit_code' = "0"
       ELSE pc' = "create" /\ UNCHANGED exit_code
  /\ UNCHANGED <<storeVars, traceVars, options, heapVars, scriptVars, evalVars, readVars>>

\* line 187: Interpreter::create
CreateInterpreter ==
  /\ pc = "create"
  /\ pc' = "set_debug_heap"
  /\ block_result' = Nil
  /\ UNCHANGED <<storeVars, traceVars, options, exit_code, heapVars, scriptVars,
                 run_result, n_units, displayed, logVars, readVars>>

\* line 188 with the setter of line 189
SetDebugHeapWrongToggle ==
  /\ pc = "set_debug_heap"
  /\ heap_toggles' = [heap_toggles EXCEPT !.gc_on_every_allocation = Flag(options.debug)]
  /\ pc' = "set_gc"
  /\ UNCHANGED <<storeVars, traceVars, options, exit_code, live, cell_data, next_addr,
                 reclaimed, ub, scriptVars, evalVars, readVars>>

\* line 188
SetDebugHeap ==
  /\ pc = "set_debug_heap"
  /\ heap_toggles' = [heap_toggles EXCEPT !.debug_heap = Flag(options.debug)]
  /\ pc' = "set_gc"
  /\ UNCHANGED <<storeVars, traceVars, options, exit_code, live, cell_data, next_addr,
                 reclaimed, ub, scriptVars, evalVars, readVars>>

\* line 189, and the branch of lines 191, 223 and 249
SetGcOnEveryAllocation ==
  /\ pc = "set_gc"
  /\ heap_toggles' = [heap_toggles EXCEPT !.gc_on_every_allocation = Flag(options.gc)]
  /\ pc' = IF repl_mode THEN "repl_setup"
           ELSE IF options.script THEN "script_alloc_array"
           ELSE "eval_run"
  /\ UNCHANGED <<storeVars, traceVars, options, exit_code, live, cell_data, next_addr,
                 reclaimed, ub, scriptVars, evalVars, readVars>>

ExceptionCell == [kind |-> "exception", elems |-> <<>>, str |-> "type"]

\* reading type, message and backtrace through the pointer run returned
\* is sound when the Exception cell is still where run put it
ReadableException(cells, memory, ref) ==
  ref \in cells /\ memory[ref].kind = "exception"

\* parse_and_run, lines 68-78: the program is parsed and run; run leaves
\* the result of its last unit in the slot, or leaves the slot alone when
\* the program has no unit.  It returns a normal Value, or an exception
\* Value that wraps an Exception cell it has just allocated; only then
\* does parse_and_run go on to log_exception.  cont is the place of the
\* caller parse_and_run returns to.
ParseAndRun(cont) ==
  /\ n_units' = n_units + 1
  /\ \E v \in {block_result, Number(n_units + 1)} : block_result' = v
  /\ resume' = cont
  /\ \/ /\ run_result' = "normal"
        /\ return_value' = 0
        /\ pc' = cont
        /\ exit_code' = IF cont = "exit" THEN "0" ELSE exit_code
        /\ UNCHANGED <<live, cell_data, next_addr, reclaimed, n_exceptions>>
     \/ /\ run_result' = "exception"
        /\ \E a \in 1..next_addr :
             /\ Allocate(a)
             /\ cell_data' = Placed(ExceptionCell, a)
             /\ return_value' = a
        /\ n_exceptions' = n_exceptions + 1
        /\ pc' = "log_exception"
        /\ UNCHANGED exit_code
  /\ UNCHANGED <<displayed, logged, heap_toggles, ub>>

\* a log_exception that allocates a heap string for the message before it
\* reads the exception
LogExceptionAllocating ==
  /\ pc = "log_exception"
  /\ \E a \in 1..next_addr :
       /\ Allocate(a)
       /\ cell_data' = Placed(StringCell("message"), a)
  /\ logged' = Append(logged, [unit |-> n_units,
                               valid |-> ReadableException(live', cell_data', return_value)])
  /\ ub' = (ub \/ ~ReadableException(live', cell_data', return_value))
  /\ pc' = resume
  /\ exit_code' = IF resume = "exit" THEN "0" ELSE exit_code
  /\ UNCHANGED <<storeVars, traceVars, options, heap_toggles, scriptVars, block_result,
                 run_result, n_units, displayed, return_value, resume, n_exceptions,
                 readVars>>

\* parse_and_run, lines 79-81, and log_exception, lines 34-57: the
\* backtrace, the type and the message are read and printed; then
\* parse_and_run returns to its caller
LogException ==
  /\ pc = "log_exception"
  /\ logged' = Append(logged, [unit |-> n_units,
                               valid |-> ReadableException(live, cell_data, return_value)])
  /\ ub' = (ub \/ ~ReadableException(live, cell_data, return_value))
  /\ pc' = resume
  /\ exit_code' = IF resume = "exit" THEN "0" ELSE exit_code
  /\ UNCHANGED <<storeVars, traceVars, options, heap_toggles, live, cell_data, next_addr,
                 reclaimed, scriptVars, block_result, run_result, n_units, displayed,
                 return_value, resume, n_exceptions, readVars>>

(*********************** script mode, lines 223-248 ************************)
\* line 233
ScriptAllocArray ==
  /\ pc = "script_alloc_array"
  /\ \E a \in 1..next_addr :
       /\ Allocate(a)
       /\ cell_data' = Placed(ArrayCell, a)
       /\ args_array' = a
  /\ n_pushed' = 0
  /\ pc' = "script_push"
  /\ UNCHANGED <<storeVars, traceVars, options, exit_code, heap_toggles, ub,
                 evalVars, readVars>>

\* lines 235-236, one turn of the loop: a PrimitiveString is allocated and
\* pushed through the local args_array.  When the array has been swept the
\* push_back writes through a dangling pointer: the process crashes, or
\* the write lands in whatever is at that address now.
ScriptPushArg ==
  /\ pc = "script_push"
  /\ n_pushed < Len(args)
  /\ \E a \in 1..next_addr :
       LET placed == Placed(StringCell(args[n_pushed + 1]), a)
           pushed == [placed EXCEPT ![args_array].elems = Append(@, a)]
           onward == IF n_pushed + 1 = Len(args) THEN "script_put" ELSE "script_push"
       IN
         /\ Allocate(a)
         /\ IF args_array \in Survivors /\ a /= args_array
              THEN /\ cell_data' = pushed
                   /\ pc' = onward
                   /\ UNCHANGED <<ub, exit_code>>
              ELSE \/ /\ cell_data' = placed
                      /\ pc' = "exit"
                      /\ exit_code' = "crash"
                      /\ ub' = TRUE
                   \/ /\ cell_data' = IF a /= args_array THEN pushed ELSE placed
                      /\ pc' = onward
                      /\ ub' = TRUE
                      /\ UNCHANGED exit_code
  /\ n_pushed' = n_pushed + 1
  /\ UNCHANGED <<storeVars, traceVars, options, heap_toggles, args_array,
                 evalVars, readVars>>

\* line 238: global_object()->put(PropertyKey("args"), args_array)
ScriptPutArgs ==
  /\ pc = "script_put"
  /\ m_properties' =
       [m_properties EXCEPT ![Root] = ObjectPut(@, StringKey("args"), CellRef(args_array))]
  /\ pc' = "script_open"
  /\ UNCHANGED <<put_log, last_call, aborted, traceVars, options, exit_code, heapVars,
                 scriptVars, evalVars, readVars>>

\* lines 240-246: the script file is opened and read, or main returns -1
ScriptOpen ==
  /\ pc = "script_open"
  /\ IF options.file_exists
       THEN pc' = "script_run" /\ UNCHANGED exit_code
       ELSE pc' = "exit" /\ exit_code' = "-1"
  /\ UNCHANGED <<storeVars, traceVars, options, heapVars, scriptVars, evalVars, readVars>>

\* line 248, and the return of main
ScriptRun ==
  /\ pc = "script_run"
  /\ ParseAndRun("exit")
  /\ UNCHANGED <<storeVars, traceVars, options, scriptVars, readVars>>

(************************ evaluate mode, lines 249-252 *********************)
EvalRun ==
  /\ pc = "eval_run"
  /\ ParseAndRun("exit")
  /\ UNCHANGED <<storeVars, traceVars, options, scriptVars, readVars>>

(*************************** REPL mode, lines 191-221 **********************)
\* lines 193-205
ReplSetup ==
  /\ pc = "repl_setup"
  /\ pc' = "repl_loop"
  /\ UNCHANGED <<storeVars, traceVars, options, exit_code, heapVars, scriptVars,
                 evalVars, readVars>>

\* line 207: the loop condition; line 221 and the return when it fails;
\* lines 86-90 when it holds and read_next_piece is entered
ReplLoop ==
  /\ pc = "repl_loop"
  /\ IF s_fail_repl
       THEN /\ n_history_writes' = n_history_writes + 1
            /\ pc' = "exit"
            /\ exit_code' = "0"
            /\ UNCHANGED <<piece, open_parens, open_brackets, open_curlies>>
       ELSE /\ piece' = <<>>
            /\ open_parens' = 0
            /\ open_brackets' = 0
            /\ open_curlies' = 0
            /\ pc' = "readline"
            /\ UNCHANGED <<n_history_writes, exit_code>>
  /\ UNCHANGED <<storeVars, traceVars, options, heapVars, scriptVars, evalVars,
                 s_fail_repl, s_line_number, s_repl_line_level, n_reads>>

\* lines 98-102: readline reports the end of the input
ReadEof ==
  /\ pc = "readline"
  /\ s_fail_repl' = TRUE
  /\ pc' = "repl_loop"
  /\ UNCHANGED <<storeVars, traceVars, options, exit_code, heapVars, scriptVars, evalVars,
                 s_line_number, s_repl_line_level, piece, open_parens, open_brackets,
                 open_curlies, n_reads, n_history_writes>>

\* lines 98-149: readline returns a line, its tokens are counted, and the
\* piece is returned once the counters add up to 0
ReadLine(line) ==
  /\ pc = "readline"
  /\ n_reads < MaxReads
  /\ n_reads' = n_reads + 1
  /\ piece' = piece \o line
  /\ open_parens' = open_parens + Delta(line, "(", ")")
  /\ open_brackets' = open_brackets + Delta(line, "[", "]")
  /\ open_curlies' = open_curlies + Delta(line, "{", "}")
  /\ s_repl_line_level' = s_repl_line_level + LevelDelta(line)
  /\ pc' = IF StillOpen(open_parens', open_brackets', open_curlies')
             THEN "readline" ELSE "repl_piece"
  /\ UNCHANGED <<storeVars, traceVars, options, exit_code, heapVars, scriptVars, evalVars,
                 s_fail_repl, s_line_number, n_history_writes>>

\* lines 210-213: a blank piece is skipped, any other is counted
ReplPiece ==
  /\ pc = "repl_piece"
  /\ IF is_whitespace(piece)
       THEN pc' = "repl_loop" /\ UNCHANGED s_line_number
       ELSE pc' = "repl_run" /\ s_line_number' = s_line_number + 1
  /\ UNCHANGED <<storeVars, traceVars, options, exit_code, heapVars, scriptVars, evalVars,
                 s_fail_repl, s_repl_line_level, piece, open_parens, open_brackets,
                 open_curlies, n_reads, n_history_writes>>

\* line 215
ReplRun ==
  /\ pc = "repl_run"
  /\ ParseAndRun("repl_display")
  /\ UNCHANGED <<storeVars, traceVars, options, scriptVars, readVars>>

\* line 217: the slot is printed
ReplDisplay ==
  /\ pc = "repl_display"
  /\ displayed' = Append(displayed, [unit |-> n_units, value |-> block_result])
  /\ pc' = "repl_reset"
  /\ UNCHANGED <<storeVars, traceVars, options, exit_code, heapVars, scriptVars,
                 block_result, run_result, n_units, logVars, readVars>>

\* a loop body without line 218: the slot keeps its value
ReplResetSkipped ==
  /\ pc = "repl_reset"
  /\ pc' = "repl_loop"
  /\ UNCHANGED <<storeVars, traceVars, options, exit_code, heapVars, scriptVars,
                 evalVars, readVars>>

\* line 218: interpreter->set_block_result(Ore::ore_nil())
ReplReset ==
  /\ pc = "repl_reset"
  /\ block_result' = Nil
  /\ pc' = "repl_loop"
  /\ UNCHANGED <<storeVars, traceVars, options, exit_code, heapVars, scriptVars,
                 run_result, n_units, displayed, logVars, readVars>>

HostInit ==
  /\ StoreInit
  /\ TraceIdle
  /\ pc = "start"
  /\ options \in OptionSpace
  /\ exit_code = "none"
  /\ heap_toggles = [debug_heap |-> "unset", gc_on_every_allocation |-> "unset"]
  /\ live = {}
  /\ cell_data = <<>>
  /\ next_addr = 1
  /\ reclaimed = {}
  /\ ub = FALSE
  /\ args_array = 0
  /\ n_pushed = 0
  /\ block_result = Nil
  /\ run_result = "none"
  /\ n_units = 0
  /\ displayed = <<>>
  /\ return_value = 0
  /\ resume = "none"
  /\ logged = <<>>
  /\ n_exceptions = 0
  /\ s_fail_repl = FALSE
  /\ s_line_number = 1
  /\ s_repl_line_level = 0
  /\ piece = <<>>
  /\ open_parens = 0
  /\ open_brackets = 0
  /\ open_curlies = 0
  /\ n_reads = 0
  /\ n_history_writes = 0

HostNext ==
  \/ MainStart
  \/ CreateInterpreter
  \/ SetDebugHeap
  \/ SetGcOnEveryAllocation
  \/ ScriptAllocArray
  \/ ScriptPushArg
  \/ ScriptPutArgs
  \/ ScriptOpen
  \/ ScriptRun
  \/ EvalRun
  \/ ReplSetup
  \/ ReplLoop
  \/ ReadEof
  \/ \E line \in InputLines : ReadLine(line)
  \/ ReplPiece
  \/ ReplRun
  \/ ReplDisplay
  \/ ReplReset
  \/ LogException

HostSpec == HostInit /\ [][HostNext]_vars

(***************************************************************************)
(* Claims about the host, checked under HostSpec.                          *)
(***************************************************************************)
\* the cells main holds for the args array: the array and what was pushed
ArrayElems == IF args_array = 0 THEN <<>> ELSE cell_data[args_array].elems
SetupCells ==
  (IF args_array = 0 THEN {} ELSE {args_array})
    \cup {ArrayElems[i] : i \in 1..Len(ArrayElems)}
\* the strings the array holds, in order
ArrayStrings == [i \in 1..Len(ArrayElems) |-> cell_data[ArrayElems[i]].str]
GlobalArgsSet ==
  /\ "args" \in DOMAIN m_properties[Root]
  /\ m_properties[Root]["args"] = CellRef(args_array)

\* C3: with gc-on-every-allocation or without, no collection run by an
\* allocate of the script-mode setup sweeps the args array or a string
\* already pushed into it, and no swept cell is dereferenced, so the setup
\* ends with the same array as with collection disabled.
C3_SetupSafeUnderCollection ==
  /\ SetupCells \cap reclaimed = {}
  /\ ~ub
  /\ pc \in {"script_put", "script_open", "script_run"} => ArrayStrings = args

\* C9: in REPL mode every evaluated unit has its slot printed exactly once
\* and then reset: when an evaluation starts, and whenever the loop is
\* between units, everything evaluated so far has been printed and the slot
\* is Nil; and no printed result is the result of an earlier unit.
C9_SlotConsumedAndReset ==
  /\ pc \in {"repl_loop", "readline", "repl_piece", "repl_run"} =>
       (block_result = Nil /\ Len(displayed) = n_units)
  /\ pc = "repl_display" => Len(displayed) = n_units - 1
  /\ pc = "repl_reset" => Len(displayed) = n_units
  /\ \A i \in 1..Len(displayed) :
       /\ displayed[i].unit = i
       /\ \A j \in 1..(i - 1) : displayed[i].value /= Number(j)

\* two units were evaluated: the first left a result, the second left the
\* slot alone, and Nil was printed for it
C9_Witness ==
  /\ pc = "repl_loop"
  /\ Len(displayed) = 2
  /\ displayed[1].value = Number(1)
  /\ displayed[2].value = Nil

\* the state part of C11: who was logged, and from what memory
C11_Logged ==
  /\ pc = "log_exception" =>
       (run_result = "exception" /\ ReadableException(live, cell_data, return_value))
  /\ Len(logged) = n_exceptions - (IF pc = "log_exception" THEN 1 ELSE 0)
  /\ \A i \in 1..Len(logged) : logged[i].valid
  /\ (pc /= "log_exception" /\ run_result = "normal") =>
       \A i \in 1..Len(logged) : logged[i].unit < n_units
  /\ (pc /= "log_exception" /\ run_result = "exception") =>
       (logged /= <<>> /\ logged[Len(logged)].unit = n_units)

\* C11: log_exception is called exactly for the runs that return an
\* exception Value; while it is pending the Exception cell is held by the
\* heap where run put it, every read it made was of such a cell, and the
\* step from run's return to the end of log_exception allocates and
\* collects nothing.
C11_ExceptionLoggedWhileValid ==
  /\ []C11_Logged
  /\ [][pc = "log_exception" => UNCHANGED <<live, cell_data, next_addr, reclaimed>>]_vars

\* with gc-on-every-allocation set, an exception of the second unit of a
\* REPL session has been logged
C11_Witness ==
  /\ pc = "repl_display"
  /\ heap_toggles.gc_on_every_allocation = "on"
  /\ n_units = 2
  /\ run_result = "exception"
  /\ logged /= <<>> /\ logged[Len(logged)].unit = 2 /\ logged[Len(logged)].valid

\* C10: in script mode, when run is called the global property "args" has
\* been put, and it holds the array whose elements are the script path and
\* then the passed arguments in command-line order, one for each.
C10_ArgsPopulatedBeforeRun ==
  /\ (options.script /\ n_units > 0) => GlobalArgsSet
  /\ pc = "script_run" =>
       /\ GlobalArgsSet
       /\ args_array \in live
       /\ SetupCells \cap reclaimed = {}
       /\ cell_data[args_array].kind = "array"
       /\ ArrayStrings = args

(***************************************************************************)
(* Claims about the property store, checked under Spec.                    *)
(***************************************************************************)
\* the positions of the log at which key name s of obj was put
PutsOf(obj, s) == {i \in 1..Len(put_log) : put_log[i].obj = obj /\ put_log[i].key = s}
Latest(idx) == CHOOSE i \in idx : \A j \in idx : j <= i
GetStep == \E key \in PropertyKeys : Get(TheObject, key)
ContainsStep == \E key \in PropertyKeys : Contains(TheObject, key)

\* C4: after any sequence of puts with string keys, get(k) for a key that
\* has been put returns exactly the value of the most recent put(k, _).
C4_GetReturnsLastPut ==
  \A obj \in Cells, s \in KeyNames :
    PutsOf(obj, s) /= {} =>
      LET r == ObjectGet(m_properties[obj], StringKey(s)) IN
        /\ r.outcome = "value"
        /\ r.value = put_log[Latest(PutsOf(obj, s))].value
        /\ (last_call.op = "get" /\ last_call.obj = obj /\ last_call.key = StringKey(s))
             => (last_call.outcome = "value" /\ last_call.value = r.value)

\* a key put twice with different values has just been read
C4_Witness ==
  /\ last_call.op = "get" /\ last_call.outcome = "value"
  /\ \E i, j \in PutsOf(TheObject, KeyString(last_call.key)) :
       i < j /\ put_log[i].value /= put_log[j].value

\* C5: contains(k) is true if and only if some put(k, _) was performed on
\* the object earlier; the log only grows, so once true it stays true.
C5_ContainsIffPut ==
  \A obj \in Cells, s \in KeyNames :
    (ObjectContains(m_properties[obj], StringKey(s)).outcome = "true")
      <=> (PutsOf(obj, s) /= {})

\* contains has just answered true for a key put with nil, another key is absent
C5_Witness ==
  /\ last_call.op = "contains" /\ last_call.outcome = "true"
  /\ m_properties[TheObject][KeyString(last_call.key)] = Nil
  /\ \E s \in KeyNames : PutsOf(TheObject, s) = {}

\* C6 as stated: contains never errors, whatever PropertyKey it is given.
C6_ContainsNeverErrors ==
  last_call.op = "contains" => (last_call.outcome \in {"true", "false"} /\ ~aborted)

\* C6 as amended: contains given a string-form key answers true or false and
\* never aborts or throws; given a key of another form its assertion fails.
C6_ContainsStringKeyNeverErrors ==
  last_call.op = "contains" =>
    IF KeyIsString(last_call.key)
      THEN last_call.outcome \in {"true", "false"} /\ ~aborted
      ELSE last_call.outcome = "abort" /\ aborted

\* contains has just answered false for an absent string key of a non-empty object
C6_Witness ==
  /\ last_call.op = "contains" /\ last_call.outcome = "false"
  /\ KeyIsString(last_call.key)
  /\ DOMAIN m_properties[TheObject] /= {}

\* C7: get returns a stored Value only for a string-form key that is present;
\* a key of another form aborts instead of returning; and no get, whatever
\* its key, changes the property map.
C7_GetContract ==
  [][GetStep =>
       /\ m_properties' = m_properties
       /\ last_call'.op = "get"
       /\ (last_call'.outcome = "value") <=>
            (KeyIsString(last_call'.key)
               /\ KeyString(last_call'.key) \in DOMAIN m_properties[TheObject])
       /\ (last_call'.outcome = "value") =>
            last_call'.value = m_properties[TheObject][KeyString(last_call'.key)]
       /\ (~KeyIsString(last_call'.key)) <=> (last_call'.outcome = "abort" /\ aborted')
    ]_vars

\* get has just been called with an absent string key on a non-empty object
C7_Witness ==
  /\ last_call.op = "get" /\ last_call.outcome = "out_of_range"
  /\ DOMAIN m_properties[TheObject] /= {}

\* C8: a call of contains, with a present or an absent key, leaves every
\* property map (key set and values) and the set of cells as they were,
\* and allocates nothing on the heap.
C8_ContainsIsPure ==
  [][ContainsStep =>
       /\ m_properties' = m_properties
       /\ DOMAIN m_properties' = DOMAIN m_properties
       /\ put_log' = put_log
       /\ UNCHANGED <<live, cell_data, next_addr>>
    ]_vars

\* contains has just answered for an absent key while another key is present
C8_Witness ==
  /\ last_call.op = "contains" /\ last_call.outcome = "false"
  /\ Cardinality(DOMAIN m_properties[TheObject]) >= 2

PutStep == \E key \in PropertyKeys, value \in StoreValues : Put(TheObject, key, value)

\* C12: a put with a string key succeeds; afterwards the key maps to the
\* value put, and every other key string, one that differs only in letter
\* case too, is present exactly if it was and holds the value it held.
C12_PutChangesOnlyItsKey ==
  [][(PutStep /\ KeyIsString(last_call'.key)) =>
       LET name == KeyString(last_call'.key)
           before == m_properties[TheObject]
           after == m_properties'[TheObject]
       IN
         /\ last_call'.outcome = "done" /\ ~aborted'
         /\ name \in DOMAIN after /\ after[name] = last_call'.value
         /\ \A s \in KeyNames \ {name} :
              /\ (s \in DOMAIN after) <=> (s \in DOMAIN before)
              /\ s \in DOMAIN before => after[s] = before[s]
         /\ \A c \in Cells \ {TheObject} : m_properties'[c] = m_properties[c]
    ]_vars

\* "A" has just been put while "a" holds another value
C12_Witness ==
  /\ last_call.op = "put" /\ last_call.outcome = "done"
  /\ last_call.key = StringKey("A")
  /\ "a" \in DOMAIN m_properties[TheObject]
  /\ m_properties[TheObject]["a"] /= m_properties[TheObject]["A"]

Occurrences(seq, c) == Cardinality({i \in 1..Len(seq) : seq[i] = c})

\* C13: when a trace has finished, every cell reachable from the root has
\* had its visit_graph run exactly once, a cell held by two properties
\* (the D of a diamond) included.
C13_EachCellVisitedOnce ==
  trace_pc = "done" => \A c \in Reachable(Root) : Occurrences(reported, c) = 1

\* a property of the cell whose turn in the loop has come
Iterated(frame) == DOMAIN m_properties[frame.cell] \ frame.todo

\* C14: a call of Object::visit_graph reports the object itself before it
\* looks at any property; it hands on the cell-valued property values, all
\* of them by the time it returns and nothing else.
C14_SelfThenCellProperties ==
  /\ \A i \in 1..Len(call_stack) :
       LET frame == call_stack[i] IN
         /\ frame.at = "self" => (i = Len(call_stack) /\ Iterated(frame) = {})
         /\ frame.at = "loop" =>
              /\ frame.cell \in Marked
              /\ \A s \in Iterated(frame) :
                   LET value == m_properties[frame.cell][s] IN
                     \/ ~IsCell(value)
                     \/ AsCell(value) \in Marked
                     \/ /\ i < Len(call_stack)
                        /\ call_stack[i + 1].cell = AsCell(value)
         /\ i < Len(call_stack) =>
              \E s \in Iterated(frame) :
                m_properties[frame.cell][s] = CellRef(call_stack[i + 1].cell)
  /\ \A i \in 1..Len(reported) :
       /\ reported[i] \in Cells
       /\ i = 1 => reported[i] = Root
       /\ i > 1 => \E j \in 1..(i - 1) : \E s \in DOMAIN m_properties[reported[j]] :
                     m_properties[reported[j]][s] = CellRef(reported[i])

\* the trace of a root with one cell-valued and one nil property is over
C14_Witness ==
  /\ trace_pc = "done"
  /\ DOMAIN m_properties[Root] = {"a", "b"}
  /\ IsCell(m_properties[Root]["a"]) /\ AsCell(m_properties[Root]["a"]) /= Root
  /\ m_properties[Root]["b"] = Nil
  /\ reported = <<Root, AsCell(m_properties[Root]["a"])>>

RunPlaces == {"script_run", "eval_run", "repl_run"}
ToggleNames == {"debug_heap", "gc_on_every_allocation"}

\* the state part of C15: unset up to its setter, the command line's
\* value from then on
C15_TogglesState ==
  /\ pc \in {"start", "create", "set_debug_heap"} =>
       heap_toggles.debug_heap = "unset"
  /\ pc \in {"start", "create", "set_debug_heap", "set_gc"} =>
       heap_toggles.gc_on_every_allocation = "unset" /\ n_units = 0
  /\ (pc \in RunPlaces \/ n_units > 0) =>
       /\ heap_toggles.debug_heap = Flag(options.debug)
       /\ heap_toggles.gc_on_every_allocation = Flag(options.gc)

\* C15: each heap toggle is set once, from unset to the value of its
\* command-line flag, after the interpreter exists and before the first
\* run of any mode, and no later step changes it.
C15_TogglesSetOnceBeforeRun ==
  /\ []C15_TogglesState
  /\ [][\A t \in ToggleNames :
          heap_toggles'[t] /= heap_toggles[t] =>
            /\ heap_toggles[t] = "unset"
            /\ heap_toggles'[t] /= "unset"
            /\ pc \in {"set_debug_heap", "set_gc"}
            /\ n_units = 0 /\ n_units' = 0
      ]_vars

\* a second program is about to run with one toggle on and one off
C15_Witness ==
  /\ pc = "repl_run" /\ n_units = 1
  /\ heap_toggles.debug_heap = "off"
  /\ heap_toggles.gc_on_every_allocation = "on"

\* C16: a piece that read_next_piece returns has as many "(" as ")", as
\* many "[" as "]" and as many "{" as "}".
C16_PieceBalancedPerKind ==
  pc = "repl_piece" =>
    /\ Count(piece, "(") = Count(piece, ")")
    /\ Count(piece, "[") = Count(piece, "]")
    /\ Count(piece, "{") = Count(piece, "}")

\* C17: s_repl_line_level is 0 whenever read_next_piece is called, so the
\* first prompt of a call is the numbered one; inside a call the level is
\* the sum of the three counters, and the continuation prompt is shown
\* exactly while the piece is still open.
C17_LevelZeroAtCall ==
  /\ (pc /= "readline" /\ ~s_fail_repl) => s_repl_line_level = 0
  /\ pc = "readline" =>
       /\ s_repl_line_level = open_parens + open_brackets + open_curlies
       /\ (get_prompt = "continuation") <=>
            StillOpen(open_parens, open_brackets, open_curlies)
       /\ piece = <<>> => get_prompt = "numbered"

\* the second call starts, after a piece of two lines was returned and run
C17_Witness ==
  /\ pc = "readline" /\ piece = <<>>
  /\ n_reads = 2 /\ n_units = 1 /\ s_line_number = 2
  /\ s_repl_line_level = 0

\* the state part of C18
C18_StoppedState ==
  /\ s_fail_repl => pc \in {"repl_loop", "exit"}
  /\ (n_history_writes = 1) <=> (s_fail_repl /\ pc = "exit")
  /\ n_history_writes \in {0, 1}
  /\ pc = "repl_run" => \E i \in 1..Len(piece) : piece[i] /= " "
  /\ s_line_number =
       IF repl_mode THEN 1 + n_units + (IF pc = "repl_run" THEN 1 ELSE 0) ELSE 1

\* C18: once readline has reported the end of the input no line is read
\* and no program is parsed or run; the next step leaves the loop and
\* writes the history, which is written once.  A blank or empty piece is
\* never run and does not advance s_line_number.
C18_StopsAtEndOfInput ==
  /\ []C18_StoppedState
  /\ [][s_fail_repl =>
          /\ s_fail_repl'
          /\ UNCHANGED <<n_units, n_reads, s_line_number, piece, logged, displayed>>
          /\ pc' = "exit" /\ exit_code' = "0"
          /\ n_history_writes' = 1
      ]_vars

\* the input ended inside a piece, after a program was run and a line was
\* skipped or joined to another
C18_Witness ==
  /\ pc = "exit" /\ s_fail_repl /\ n_history_writes = 1
  /\ n_units = 1 /\ s_line_number = 2
  /\ n_reads = 3 /\ piece = <<"(">>

\* C19: when the script file cannot be opened main returns -1 and no
\* program was run; what has happened by then is the allocation of the
\* args array with its strings and its storage under the global "args".
C19_OpenFailureReturnsMinusOne ==
  (pc = "exit" /\ ~options.help /\ options.script /\ ~options.file_exists) =>
    /\ exit_code = "-1"
    /\ n_units = 0 /\ run_result = "none" /\ logged = <<>>
    /\ block_result = Nil
    /\ DOMAIN m_properties[Root] = {"args"}
    /\ GlobalArgsSet
    /\ live = SetupCells
    /\ ArrayStrings = args

=============================================================================
